---- MODULE Spec2Model ----
(***************************************************************************)
(* Model of OSL's closure representation (src/include/oslclosure.h):       *)
(* ClosurePrimitive descriptors and their registry, and ClosureColor, the  *)
(* weighted list of components over one shared parameter arena.            *)
(*                                                                         *)
(* Weights are Color3 values; they are modelled as triples of small        *)
(* integers (values on which float arithmetic is exact).  Bytes are        *)
(* naturals below 256.  std::vector<Component> is modelled with its        *)
(* capacity, because growing past the capacity copy-constructs every       *)
(* stored Component.                                                       *)
(***************************************************************************)
EXTENDS Integers, Sequences, FiniteSets, TLC

(***************************************************************************)
(* Bounds of the model.                                                    *)
(***************************************************************************)
MaxComp == 3      \* components held by one ClosureColor
MaxW == 2         \* magnitude of a weight channel
MaxRegs == 3      \* descriptors constructed in one run of the registry
MaxArgs == 2      \* length of an argument-code string
MaxTotal == 4     \* components of the three buffers of a sum, together

(***************************************************************************)
(* TypeDesc: the semantic argument types and their byte sizes.             *)
(***************************************************************************)
TypeCodes == {"f", "v", "c"}

TypeOfCode(ch) ==
    CASE ch = "f" -> "float"
      [] ch = "v" -> "vector"
      [] ch = "c" -> "color"

TypeSize(t) ==
    CASE t = "float" -> 4
      [] t = "vector" -> 12
      [] t = "color" -> 12

(***************************************************************************)
(* ClosurePrimitive                                                        *)
(***************************************************************************)
Category == {"BSDF", "Emissive"}

\* The constructor's pass over the code string: for each character, the
\* current m_argmem is pushed as the argument's offset, the type is pushed,
\* and m_argmem and m_nargs advance.
RECURSIVE ParseArgs(_, _)
ParseArgs(d, codes) ==
    IF codes = <<>> THEN d
    ELSE LET t == TypeOfCode(Head(codes))
         IN  ParseArgs([d EXCEPT !.m_argoffsets = Append(@, d.m_argmem),
                                 !.m_argtypes = Append(@, t),
                                 !.m_argmem = @ + TypeSize(t),
                                 !.m_nargs = @ + 1],
                       Tail(codes))

ValidCodes(codes) == \A i \in 1..Len(codes) : codes[i] \in TypeCodes

ClosurePrimitive(name, codes, category) ==
    ParseArgs([m_name |-> name, m_category |-> category, m_nargs |-> 0,
               m_argmem |-> 0, m_argtypes |-> <<>>, m_argoffsets |-> <<>>,
               m_argcodes |-> codes],
              codes)

\* Accessors; argument indices are 0-based as in the source.
name(p) == p.m_name
nargs(p) == p.m_nargs
argcodes(p) == p.m_argcodes
argtype(p, i) == p.m_argtypes[i + 1]
argoffset(p, i) == p.m_argoffsets[i + 1]
\* argmem() returning the wrong member.
argmem_nargs(p) == p.m_nargs

argmem(p) == p.m_argmem
category(p) == p.m_category

\* The descriptors that exist in the runs of the closure buffer.
Prims ==
    { ClosurePrimitive("diffuse", <<"v">>, "BSDF"),
      ClosurePrimitive("phong", <<"v", "f">>, "BSDF"),
      ClosurePrimitive("emission", <<>>, "Emissive") }

(***************************************************************************)
(* Color3 arithmetic on weights.                                           *)
(***************************************************************************)
One == <<1, 1, 1>>
ScaleColor(w, f) == <<w[1] * f, w[2] * f, w[3] * f>>
MulColor(w, v) == <<w[1] * v[1], w[2] * v[2], w[3] * v[3]>>
InRange(w) == \A k \in 1..3 : w[k] >= -MaxW /\ w[k] <= MaxW

(***************************************************************************)
(* ClosureColor::Component and the vector that stores it                   *)
(***************************************************************************)
\* Component (const ClosurePrimitive *prim, const Color3 &w)
Component(cprim, w) ==
    [cprim |-> cprim, nargs |-> nargs(cprim), memoffset |-> 0, weight |-> w]

\* Component (const Component &x)
CopyComponent(x) ==
    [cprim |-> x.cprim, nargs |-> nargs(x.cprim), memoffset |-> 0,
     weight |-> x.weight]

\* How a std::vector chooses its new capacity when it is full.  The standard
\* leaves the factor to the library (it must be geometric): growth by half
\* or doubling.
Policies == {"half", "double"}

NewCap(pol, n) ==
    CASE pol = "half" -> IF n + (n \div 2) > n THEN n + (n \div 2) ELSE n + 1
      [] pol = "double" -> IF n = 0 THEN 1 ELSE 2 * n

\* m_components.push_back (x): a full vector moves to new storage by
\* copy-constructing each stored Component; x itself is copy-constructed
\* into the new last slot.
PushBack(pol, c, x) ==
    LET full == Len(c.m_components) = c.cap
        old == IF full
               THEN [i \in 1..Len(c.m_components) |->
                        CopyComponent(c.m_components[i])]
               ELSE c.m_components
    IN  [c EXCEPT !.m_components = Append(old, CopyComponent(x)),
                  !.cap = IF full THEN NewCap(pol, c.cap) ELSE c.cap]

(***************************************************************************)
(* ClosureColor                                                            *)
(***************************************************************************)
\* ClosureColor (): no components, no memory, no storage reserved.
Empty == [m_components |-> <<>>, m_mem |-> <<>>, cap |-> 0]

\* clear() without m_mem.clear (): the arena survives.
clear_keepmem(c) == [c EXCEPT !.m_components = <<>>]

\* clear() without m_components.clear (): the components survive.
clear_keepcomps(c) == [c EXCEPT !.m_mem = <<>>]

\* vector::clear drops the elements and keeps the storage.
clear(c) == [c EXCEPT !.m_components = <<>>, !.m_mem = <<>>]

\* Appends one component whose parameters take argmem bytes at the end of
\* the arena.
add_component(pol, c, cprim, w, params) ==
    LET pushed == PushBack(pol, c, Component(cprim, w))
        n == Len(pushed.m_components)
    IN  [pushed EXCEPT !.m_components[n].memoffset = Len(c.m_mem),
                       !.m_mem = c.m_mem \o params]

set(pol, c, cprim, params) == add_component(pol, clear(c), cprim, One, params)

\* *this += A: A's components are appended one by one and A's arena is
\* appended to the arena; an appended component keeps its place in A's
\* arena, shifted by the old arena size.
RECURSIVE AppendComponents(_, _, _, _, _)
AppendComponents(pol, c, A, k, base) ==
    IF k > Len(A.m_components) THEN c
    ELSE LET pushed == PushBack(pol, c, A.m_components[k])
             n == Len(pushed.m_components)
         IN  AppendComponents(pol,
                 [pushed EXCEPT !.m_components[n].memoffset =
                                    base + A.m_components[k].memoffset],
                 A, k + 1, base)

add(pol, c, A) ==
    LET appended == AppendComponents(pol, c, A, 1, Len(c.m_mem))
    IN  [appended EXCEPT !.m_mem = c.m_mem \o A.m_mem]

\* *this = a + b
add2(pol, c, a, b) == add(pol, add(pol, clear(c), a), b)

\* mul(f) that clamps the scaled weights at zero.
mul_clamped(c, f) ==
    [c EXCEPT !.m_components =
        [i \in 1..Len(c.m_components) |->
            [c.m_components[i] EXCEPT !.weight =
                [k \in 1..3 |-> IF @[k] * f < 0 THEN 0 ELSE @[k] * f]]]]

\* *this *= f, *this *= w
mul(c, f) ==
    [c EXCEPT !.m_components =
        [i \in 1..Len(c.m_components) |->
            [c.m_components[i] EXCEPT !.weight = ScaleColor(@, f)]]]

mulc(c, w) ==
    [c EXCEPT !.m_components =
        [i \in 1..Len(c.m_components) |->
            [c.m_components[i] EXCEPT !.weight = MulColor(@, w)]]]

\* Introspection; component indices are 0-based as in the source.
ncomponents(c) == Len(c.m_components)
component(c, i) == c.m_components[i + 1]
weight(c, i) == component(c, i).weight
prim(c, i) == component(c, i).cprim

\* compdata(i) points at m_mem[memoffset]; its reader takes the argmem bytes
\* of the component's primitive from there.
compdata(c, i) ==
    SubSeq(c.m_mem, component(c, i).memoffset + 1,
           component(c, i).memoffset + argmem(prim(c, i)))

\* memcpy (&m_mem[memoffset + argoffset(param)], data, argtype(param).size())
set_parameter(c, i, param, data) ==
    LET comp == c.m_components[i + 1]
        at == comp.memoffset + argoffset(comp.cprim, param)
        sz == TypeSize(argtype(comp.cprim, param))
    IN  [c EXCEPT !.m_mem =
            [j \in 1..Len(c.m_mem) |->
                IF j > at /\ j <= at + sz THEN data[j - at] ELSE c.m_mem[j]]]

(***************************************************************************)
(* Inputs                                                                  *)
(***************************************************************************)
\* Parameter blocks handed to the buffer: n bytes that depend on the value d
\* and on the position, so that any two blocks and any two positions differ.
ParamBytes(n, d) == [j \in 1..n |-> (16 * d + j) % 256]

SetData == {2}
Factors == {-2, 2}
Colors == {<<2, 1, 0>>}

\* The components that add_component is called with: primitive, weight and
\* the value that fills the parameter block.
Items == { <<ClosurePrimitive("diffuse", <<"v">>, "BSDF"), <<1, 0, 0>>, 1>>,
           <<ClosurePrimitive("phong", <<"v", "f">>, "BSDF"), <<0, 1, 0>>, 2>> }

\* The components of the buffers that are added up, two of them on the same
\* primitive.
SumItems == { <<ClosurePrimitive("diffuse", <<"v">>, "BSDF"), <<1, 0, 0>>, 1>>,
              <<ClosurePrimitive("diffuse", <<"v">>, "BSDF"), <<0, 1, 0>>, 2>>,
              <<ClosurePrimitive("phong", <<"v", "f">>, "BSDF"), One, 1>> }

\* Buffers that a caller can hold: built by add_component from an empty one.
RECURSIVE Build(_, _)
Build(pol, items) ==
    IF items = <<>> THEN Empty
    ELSE LET it == items[Len(items)]
         IN  add_component(pol, Build(pol, SubSeq(items, 1, Len(items) - 1)),
                           it[1], it[2], ParamBytes(argmem(it[1]), it[3]))

Min(x, y) == IF x < y THEN x ELSE y

ItemLists(S, lo, hi) == UNION { [1..n -> S] : n \in lo..hi }
InputBuffers(pol, lo, hi) == { Build(pol, l) : l \in ItemLists(Items, lo, hi) }

VARIABLES policy,    \* the growth policy of the library's vector
          cc,        \* the ClosureColor under its operations
          last,      \* the operation that produced cc, with its arguments
          a, b, c,   \* three ClosureColors that are added up
          ab,        \* a + b
          abc,       \* (a + b) += c
          bc,        \* b + c
          abc2,      \* a + (b + c)
          pc,        \* how far the additions have come
          registry,  \* name -> registered descriptor object
          nobjs,     \* descriptor objects constructed so far
          status,    \* "ok", or the configuration error that stopped the process
          made,      \* the descriptor object constructed last
          found      \* result of the last lookup by name

bufVars == <<cc, last>>
addVars == <<a, b, c, ab, abc, bc, abc2, pc>>
regVars == <<registry, nobjs, status, made, found>>
vars == <<policy, cc, last, a, b, c, ab, abc, bc, abc2, pc,
          registry, nobjs, status, made, found>>

NotFound == [id |-> 0, desc |-> <<>>]

NoOp == [op |-> "new", cprim |-> <<>>, w |-> <<>>, data |-> <<>>, f |-> 0]

BufIdle == cc = Empty /\ last = NoOp
AddIdle ==
    /\ a = Empty /\ b = Empty /\ c = Empty
    /\ ab = Empty /\ abc = Empty /\ bc = Empty /\ abc2 = Empty
    /\ pc = "idle"
RegIdle ==
    /\ registry = <<>> /\ nobjs = 0 /\ status = "ok"
    /\ made = NotFound /\ found = NotFound

(***************************************************************************)
(* One ClosureColor under its operations                                   *)
(***************************************************************************)
Init ==
    /\ policy \in Policies
    /\ BufIdle
    /\ AddIdle
    /\ RegIdle

Clear ==
    /\ ncomponents(cc) > 0
    /\ cc' = clear(cc)
    /\ last' = [NoOp EXCEPT !.op = "clear"]
    /\ UNCHANGED <<policy, addVars, regVars>>

Set ==
    \E cprim \in Prims, d \in SetData :
        /\ cc' = set(policy, cc, cprim, ParamBytes(argmem(cprim), d))
        /\ last' = [NoOp EXCEPT !.op = "set", !.cprim = cprim,
                                !.data = ParamBytes(argmem(cprim), d)]
        /\ UNCHANGED <<policy, addVars, regVars>>

AddComponent ==
    \E it \in Items :
        /\ ncomponents(cc) < MaxComp
        /\ cc' = add_component(policy, cc, it[1], it[2],
                               ParamBytes(argmem(it[1]), it[3]))
        /\ last' = [NoOp EXCEPT !.op = "add_component", !.cprim = it[1],
                                !.w = it[2],
                                !.data = ParamBytes(argmem(it[1]), it[3])]
        /\ UNCHANGED <<policy, addVars, regVars>>

\* *this += A for a caller's buffer A of one or two components.
Add ==
    \E A \in InputBuffers(policy, 1, Min(2, MaxComp - ncomponents(cc))) :
        /\ cc' = add(policy, cc, A)
        /\ last' = [NoOp EXCEPT !.op = "add"]
        /\ UNCHANGED <<policy, addVars, regVars>>

\* *this = x + y for callers' buffers of at most one component each.
Add2 ==
    \E x \in InputBuffers(policy, 0, 1) :
        \E y \in InputBuffers(policy, 0, 1) :
            /\ cc' = add2(policy, cc, x, y)
            /\ last' = [NoOp EXCEPT !.op = "add2"]
            /\ UNCHANGED <<policy, addVars, regVars>>

Mul ==
    \E f \in Factors :
        /\ ncomponents(cc) > 0
        /\ \A i \in 0..(ncomponents(cc) - 1) :
               InRange(ScaleColor(weight(cc, i), f))
        /\ cc' = mul(cc, f)
        /\ last' = [NoOp EXCEPT !.op = "mul", !.f = f]
        /\ UNCHANGED <<policy, addVars, regVars>>

MulC ==
    \E w \in Colors :
        /\ ncomponents(cc) > 0
        /\ \A i \in 0..(ncomponents(cc) - 1) :
               InRange(MulColor(weight(cc, i), w))
        /\ cc' = mulc(cc, w)
        /\ last' = [NoOp EXCEPT !.op = "mulc", !.w = w]
        /\ UNCHANGED <<policy, addVars, regVars>>

SetParameter ==
    \E i \in 0..(ncomponents(cc) - 1), d \in SetData :
        \E p \in 0..(nargs(prim(cc, i)) - 1) :
            LET data == ParamBytes(TypeSize(argtype(prim(cc, i), p)), d)
            IN  /\ cc' = set_parameter(cc, i, p, data)
                /\ last' = [NoOp EXCEPT !.op = "set_parameter", !.data = data]
                /\ UNCHANGED <<policy, addVars, regVars>>

Next ==
    \/ Clear
    \/ Set
    \/ AddComponent
    \/ Add
    \/ Add2
    \/ Mul
    \/ MulC
    \/ SetParameter

Spec == Init /\ [][Next]_vars

(***************************************************************************)
(* Sums of three ClosureColors, grouped both ways                          *)
(***************************************************************************)
\* a, b and c are buffers built by add_component, MaxTotal components in all.
InitAdd ==
    /\ policy \in Policies
    /\ \E la \in ItemLists(SumItems, 0, MaxTotal) :
         \E lb \in ItemLists(SumItems, 0, MaxTotal - Len(la)) :
           \E lc \in ItemLists(SumItems, 0, MaxTotal - Len(la) - Len(lb)) :
              /\ a = Build(policy, la)
              /\ b = Build(policy, lb)
              /\ c = Build(policy, lc)
    /\ ab = Empty /\ abc = Empty /\ bc = Empty /\ abc2 = Empty
    /\ pc = "start"
    /\ BufIdle
    /\ RegIdle

\* ab = a + b, into a new ClosureColor
AddAB ==
    /\ pc = "start"
    /\ ab' = add2(policy, Empty, a, b)
    /\ pc' = "ab"
    /\ UNCHANGED <<policy, a, b, c, abc, bc, abc2, bufVars, regVars>>

\* abc = ab; abc += c  (the buffer that holds a + b takes c in place)
AddC ==
    /\ pc = "ab"
    /\ abc' = add(policy, ab, c)
    /\ pc' = "abc"
    /\ UNCHANGED <<policy, a, b, c, ab, bc, abc2, bufVars, regVars>>

\* bc = b + c, into a new ClosureColor
AddBC ==
    /\ pc = "abc"
    /\ bc' = add2(policy, Empty, b, c)
    /\ pc' = "bc"
    /\ UNCHANGED <<policy, a, b, c, ab, abc, abc2, bufVars, regVars>>

\* abc2 = a + bc, into a new ClosureColor
AddABC ==
    /\ pc = "bc"
    /\ abc2' = add2(policy, Empty, a, bc)
    /\ pc' = "done"
    /\ UNCHANGED <<policy, a, b, c, ab, abc, bc, bufVars, regVars>>

NextAdd ==
    \/ AddAB
    \/ AddC
    \/ AddBC
    \/ AddABC

SpecAdd == InitAdd /\ [][NextAdd]_vars

(***************************************************************************)
(* The registry of ClosurePrimitives                                       *)
(***************************************************************************)
Names == {"diffuse", "phong"}
Letters == {"f", "v", "x"}
CodeStrings == UNION { [1..n -> Letters] : n \in 0..MaxArgs }

\* Registration that lets a later object take over the name.
register_replace(reg, obj) ==
    [n \in DOMAIN reg \cup {name(obj.desc)} |->
        IF n = name(obj.desc) THEN obj ELSE reg[n]]

\* Adds the object under its name; a name that is already taken stays with
\* its first object.
register(reg, obj) ==
    IF name(obj.desc) \in DOMAIN reg THEN reg
    ELSE [n \in DOMAIN reg \cup {name(obj.desc)} |->
            IF n = name(obj.desc) THEN obj ELSE reg[n]]

\* ClosurePrimitive::primitive (name)
primitive(reg, n) == IF n \in DOMAIN reg THEN reg[n] ELSE NotFound

InitReg ==
    /\ policy = "double"
    /\ BufIdle
    /\ AddIdle
    /\ RegIdle

\* Constructing a descriptor object parses its argument codes and registers
\* it.  An unknown type letter and a name that is already registered are
\* configuration errors, after which the process does not go on.
Construct(nm, codes, cat) ==
    /\ status = "ok"
    /\ nobjs < MaxRegs
    /\ IF ~ValidCodes(codes)
       THEN /\ status' = "bad type code"
            /\ UNCHANGED <<registry, nobjs, made>>
       ELSE LET obj == [id |-> nobjs + 1,
                        desc |-> ClosurePrimitive(nm, codes, cat)]
            IN  /\ registry' = register(registry, obj)
                /\ made' = obj
                /\ nobjs' = nobjs + 1
                /\ status' = IF nm \in DOMAIN registry
                             THEN "duplicate name" ELSE "ok"
    /\ UNCHANGED <<found, policy, bufVars, addVars>>

\* BSDFClosure (name, argtypes)
NewBSDFClosure ==
    \E nm \in Names, codes \in CodeStrings : Construct(nm, codes, "BSDF")

\* EmissiveClosure (name, argtypes)
NewEmissiveClosure ==
    \E nm \in Names, codes \in CodeStrings : Construct(nm, codes, "Emissive")

Lookup ==
    \E nm \in Names \cup {"ward"} :
        /\ status = "ok"
        /\ found' = primitive(registry, nm)
        /\ UNCHANGED <<registry, nobjs, status, made, policy, bufVars, addVars>>

NextReg ==
    \/ NewBSDFClosure
    \/ NewEmissiveClosure
    \/ Lookup

SpecReg == InitReg /\ [][NextReg]_vars

(***************************************************************************)
(* Properties of one ClosureColor (specification Spec)                     *)
(***************************************************************************)
RECURSIVE SumArgmem(_)
SumArgmem(comps) ==
    IF comps = <<>> THEN 0
    ELSE SumArgmem(SubSeq(comps, 1, Len(comps) - 1))
         + argmem(comps[Len(comps)].cprim)

Disjoint(x, y) ==
    \/ x.memoffset + argmem(x.cprim) <= y.memoffset
    \/ y.memoffset + argmem(y.cprim) <= x.memoffset

\* The bytes of argument q of component i, as a reader of compdata(i) sees
\* them.
ArgBytes(buf, i, q) ==
    SubSeq(compdata(buf, i), argoffset(prim(buf, i), q) + 1,
           argoffset(prim(buf, i), q) + TypeSize(argtype(prim(buf, i), q)))

\* C1: in every reachable state the arena is as long as the sum of argmem
\* over the components, and the byte ranges [memoffset, memoffset + argmem)
\* of two distinct components do not overlap.
C1_ArenaPartitioned ==
    /\ Len(cc.m_mem) = SumArgmem(cc.m_components)
    /\ \A i, j \in 1..Len(cc.m_components) :
          i # j => Disjoint(cc.m_components[i], cc.m_components[j])

\* C2: add_component appends a component that reads back the given
\* parameter bytes, weight and primitive, and an add_component or add(A)
\* changes neither the bytes nor the primitive that an earlier component
\* reads.
C2_ReadBackStable ==
    [][ /\ last'.op = "add_component" =>
              /\ ncomponents(cc') = ncomponents(cc) + 1
              /\ compdata(cc', ncomponents(cc)) = last'.data
              /\ weight(cc', ncomponents(cc)) = last'.w
              /\ prim(cc', ncomponents(cc)) = last'.cprim
        /\ last'.op \in {"add_component", "add"} =>
              \A i \in 0..(ncomponents(cc) - 1) :
                  /\ compdata(cc', i) = compdata(cc, i)
                  /\ prim(cc', i) = prim(cc, i) ]_vars

\* C4: set(prim, params) leaves what clear() followed by
\* add_component(prim, (1,1,1), params) leaves: one component of prim with
\* weight (1,1,1) at memoffset 0 over an arena of exactly argmem(prim) bytes
\* holding params; clear() leaves no component and an empty arena.
C4_SetIsClearThenAdd ==
    [][ /\ last'.op = "set" =>
              /\ cc' = add_component(policy, clear(cc), last'.cprim, One,
                                     last'.data)
              /\ ncomponents(cc') = 1
              /\ prim(cc', 0) = last'.cprim
              /\ weight(cc', 0) = <<1, 1, 1>>
              /\ component(cc', 0).memoffset = 0
              /\ Len(cc'.m_mem) = argmem(last'.cprim)
              /\ cc'.m_mem = last'.data
        /\ last'.op = "clear" =>
              /\ ncomponents(cc') = 0
              /\ Len(cc'.m_mem) = 0 ]_vars

\* A set that replaced a buffer of three components.
C4_Witness ==
    /\ last.op = "set"
    /\ cc.cap >= 3
    /\ ncomponents(cc) = 1
    /\ argmem(prim(cc, 0)) > 0

\* C5: mul(f) and mul(w) multiply every weight by the factor, channel by
\* channel, unclamped, and leave the number of components, each component's
\* primitive, nargs and memoffset, and the arena as they were.
SameLayout(x, y) ==
    /\ ncomponents(y) = ncomponents(x)
    /\ y.m_mem = x.m_mem
    /\ \A i \in 0..(ncomponents(x) - 1) :
          /\ prim(y, i) = prim(x, i)
          /\ component(y, i).nargs = component(x, i).nargs
          /\ component(y, i).memoffset = component(x, i).memoffset

C5_MulScalesWeightsOnly ==
    [][ /\ last'.op = "mul" =>
              /\ SameLayout(cc, cc')
              /\ \A i \in 0..(ncomponents(cc) - 1) : \A k \in 1..3 :
                    weight(cc', i)[k] = weight(cc, i)[k] * last'.f
        /\ last'.op = "mulc" =>
              /\ SameLayout(cc, cc')
              /\ \A i \in 0..(ncomponents(cc) - 1) : \A k \in 1..3 :
                    weight(cc', i)[k] = weight(cc, i)[k] * last'.w[k] ]_vars

\* A multiplication by a negative factor of magnitude above one has acted on
\* a buffer of several components with parameters.
C5_Witness ==
    /\ last.op = "mul"
    /\ last.f < -1
    /\ ncomponents(cc) >= 2
    /\ Len(cc.m_mem) > 0
    /\ \E i \in 0..(ncomponents(cc) - 1) : weight(cc, i)[1] < -1

\* C9: in every reachable state each component has memoffset >= 0 and
\* memoffset + argmem <= m_mem.size(), so that compdata(i) and every
\* set_parameter(i, p, data) with valid indices stay inside the arena.
C9_InsideArena ==
    \A i \in 0..(ncomponents(cc) - 1) :
        /\ component(cc, i).memoffset >= 0
        /\ component(cc, i).memoffset + argmem(prim(cc, i)) <= Len(cc.m_mem)
        /\ \A p \in 0..(nargs(prim(cc, i)) - 1) :
              /\ component(cc, i).memoffset + argoffset(prim(cc, i), p) >= 0
              /\ component(cc, i).memoffset + argoffset(prim(cc, i), p)
                   + TypeSize(argtype(prim(cc, i), p)) <= Len(cc.m_mem)

\* A set_parameter on a buffer of three components, the last of which has
\* two arguments.
C9_Witness ==
    /\ last.op = "set_parameter"
    /\ ncomponents(cc) = 3
    /\ nargs(prim(cc, 2)) = 2
    /\ component(cc, 2).memoffset > 0

\* C10: set_parameter(i, p, data) with valid indices writes data over the
\* size(argtype(p)) bytes at memoffset(i) + argoffset(p) and changes nothing
\* else: not the components, not the other arguments of component i, not the
\* parameter bytes that any other component reads.
C10_SetParameterFrame ==
    [][ last'.op = "set_parameter" =>
          \A i \in 0..(ncomponents(cc) - 1) :
            \A p \in 0..(nargs(prim(cc, i)) - 1) :
              ( /\ Len(last'.data) = TypeSize(argtype(prim(cc, i), p))
                /\ cc' = set_parameter(cc, i, p, last'.data) ) =>
                /\ cc'.m_components = cc.m_components
                /\ Len(cc'.m_mem) = Len(cc.m_mem)
                /\ ArgBytes(cc', i, p) = last'.data
                /\ \A q \in 0..(nargs(prim(cc, i)) - 1) :
                      q # p => ArgBytes(cc', i, q) = ArgBytes(cc, i, q)
                /\ \A j \in 0..(ncomponents(cc) - 1) :
                      j # i => compdata(cc', j) = compdata(cc, j) ]_vars

(***************************************************************************)
(* Properties of sums (specification SpecAdd)                              *)
(***************************************************************************)
\* What a reader sees of a buffer: per component, its primitive, its weight
\* and its parameter bytes.
Entries(buf) ==
    [i \in 1..ncomponents(buf) |->
        <<prim(buf, i - 1), weight(buf, i - 1), compdata(buf, i - 1)>>]

\* C3: a + b has count(a) + count(b) components, those of a followed by
\* those of b, each with its primitive, weight and parameter bytes, none
\* merged; and += c appends the components of c after the existing ones.
C3_AddConcatenates ==
    /\ pc \in {"ab", "abc", "bc", "done"} =>
          /\ ncomponents(ab) = ncomponents(a) + ncomponents(b)
          /\ Entries(ab) = Entries(a) \o Entries(b)
    /\ pc \in {"abc", "bc", "done"} =>
          /\ ncomponents(abc) = ncomponents(ab) + ncomponents(c)
          /\ Entries(abc) = Entries(ab) \o Entries(c)

\* C8: (a + b) += c and a + (b + c) hold the same sequence of components:
\* the same primitives, weights and parameter bytes in the same order.
C8_AddAssociative ==
    pc = "done" => Entries(abc) = Entries(abc2)

(***************************************************************************)
(* Properties of descriptors and the registry (specification SpecReg)      *)
(***************************************************************************)
RECURSIVE PrefixSize(_, _)
PrefixSize(types, n) ==
    IF n = 0 THEN 0 ELSE PrefixSize(types, n - 1) + TypeSize(types[n])

LayoutOK(d) ==
    /\ Len(argcodes(d)) = nargs(d)
    /\ Len(d.m_argtypes) = nargs(d)
    /\ Len(d.m_argoffsets) = nargs(d)
    /\ argmem(d) = PrefixSize(d.m_argtypes, nargs(d))
    /\ \A i \in 0..(nargs(d) - 1) :
          /\ argoffset(d, i) = PrefixSize(d.m_argtypes, i)
          /\ argoffset(d, i) + TypeSize(argtype(d, i)) <= argmem(d)
          /\ i > 0 => argoffset(d, i - 1) <= argoffset(d, i)

\* C6: for every descriptor built from an argument-code string, argoffset(i)
\* is the sum of the sizes of the arguments before i, argmem is the sum of
\* all argument sizes, the offsets do not decrease, each argument ends
\* within argmem, and argcodes, argtypes and argoffsets have nargs entries.
C6_DescriptorLayout ==
    /\ made # NotFound => LayoutOK(made.desc)
    /\ \A n \in DOMAIN registry : LayoutOK(registry[n].desc)

\* A descriptor of two arguments of different sizes has been built.
C6_Witness ==
    /\ made # NotFound
    /\ argcodes(made.desc) = <<"v", "f">>
    /\ argoffset(made.desc, 1) = 12
    /\ argmem(made.desc) = 16

\* C7: a name has at most one descriptor: lookup by name gives the object
\* first registered under the name, or not-found for a name never
\* registered, and constructing a second object under a registered name
\* is a configuration error that leaves the first object in place.
C7_NamesUnique ==
    [][ \A n \in Names \cup {"ward"} :
          /\ primitive(registry, n) # NotFound =>
                primitive(registry', n) = primitive(registry, n)
          /\ primitive(registry', n) # NotFound =>
                name(primitive(registry', n).desc) = n
          /\ (primitive(registry, n) = NotFound
                /\ primitive(registry', n) # NotFound) =>
                (primitive(registry', n) = made' /\ nobjs' = nobjs + 1)
          /\ (primitive(registry', n) = NotFound) =>
                (made' = NotFound \/ name(made'.desc) # n)
          /\ (nobjs' = nobjs + 1 /\ name(made'.desc) = n
                /\ primitive(registry, n) # NotFound) =>
                (status' = "duplicate name" /\ registry' = registry)
          /\ (found' # found /\ found' # NotFound) =>
                found' = primitive(registry, name(found'.desc)) ]_vars

\* A second object was constructed under a registered name.
C7_Witness ==
    /\ status = "duplicate name"
    /\ made # NotFound
    /\ primitive(registry, name(made.desc)) # NotFound
    /\ primitive(registry, name(made.desc)).id < made.id

====
